---- MODULE Spec2Model ----
(***************************************************************************)
(* Model of the Timed Media Composition Engine of manga-video-automation:  *)
(* VideoBuilder.build_manga_video (src/core/video.py) and the stage        *)
(* functions it calls.  One build is a sequential pipeline of blocking     *)
(* external-tool invocations; each invocation's outcome is chosen          *)
(* nondeterministically.  Times are whole seconds, volumes are hundredths. *)
(* The series tracker (src/scheduler/tracker.py) and the daily run of     *)
(* MangaAutomation (src/scheduler/automation.py) are modelled at the end.   *)
(***************************************************************************)
EXTENDS Integers, Sequences, FiniteSets

(* ---------------------------- bounds ----------------------------------- *)
MaxPages == 2
MaxTimelinePages == 3
MaxHours == 10
MaxTextLen == 7
MaxWidth == 3
MaxClipList == 3
MaxAudioPages == 2
MaxPlan == 3
MaxWords == 3
MaxEvents == 2
MaxSeries == 3

(* ------------------------ program constants ---------------------------- *)
DEFAULT_PAGE_DURATION == 4
MUSIC_VOLUME == 30
MUSIC_VOLUME_WITH_NARRATION == 15
\* Default max_chars of wrap_text.
DEFAULT_MAX_CHARS == 42
\* Default fade_in_ms and fade_out_ms of create_subtitle_event.
DEFAULT_FADE_IN_MS == 200
DEFAULT_FADE_OUT_MS == 150

(* ------------------------------ inputs --------------------------------- *)
\* suggested_duration of a page: 0 stands for "key absent".
Durations == {0, 3, 5}
\* narration_audio of a page: no path, a path whose file is on disk, or a
\* path whose file is not on disk.
NarrationAudios == {"none", "file", "missing"}
\* music_path: None, an existing file, or a path that does not exist.
MusicPaths == {"none", "file", "missing"}
\* narration text of page k: 0 is the empty string, k is a non-empty text
\* that belongs to page k alone.
PageRecords(k) ==
    [suggested_duration : Durations,
     narration : {0, k},
     narration_audio : NarrationAudios]

PageLists(n) ==
    {p \in [1..n -> UNION {PageRecords(k) : k \in 1..n}] :
        \A k \in 1..n : p[k] \in PageRecords(k)}

(* --------------------------- file contents ----------------------------- *)
NoFile == [kind |-> "none", video |-> "none", audio |-> "none", volume |-> 0]
PartialFile == [kind |-> "partial", video |-> "none", audio |-> "none", volume |-> 0]
ListFile == [kind |-> "list", video |-> "none", audio |-> "none", volume |-> 0]
AssFile == [kind |-> "ass", video |-> "none", audio |-> "none", volume |-> 0]
NarrationTrack == [kind |-> "audio", video |-> "none", audio |-> "narration", volume |-> 0]
VideoFile(v, a, vol) == [kind |-> "video", video |-> v, audio |-> a, volume |-> vol]

concat_file == "concat_list.txt"
concat_path == "concat_temp.mp4"
SubsPath == "subtitles.ass"
SubsVideo == "with_subs.mp4"
NarrationPath == "narration_combined.aac"
IntermediateNames == {concat_file, concat_path, SubsPath, SubsVideo, NarrationPath}
OutputNames == {"manga_video.mp4"}
FileNames == IntermediateNames \cup OutputNames

VARIABLES
    pages_data,       \* the ordered page descriptors handed to the build
    music_path,       \* the optional music file handed to the build
    output_name,      \* the requested output file name
    pc,               \* position in build_manga_video
    success,          \* render outcome of every page processed so far
    clips,            \* page indices whose clip is in the clip list
    current_time,     \* running timeline offset of the render loop
    all_dialogues,    \* caption events collected so far
    total_duration,   \* total duration fixed after the render loop
    current_video,    \* the "current video" pointer
    subs_video,       \* with_subs.mp4 path or "none"
    subs_path,        \* subtitles.ass path or "none"
    narration_path,   \* combined narration track path or "none"
    narrations,       \* the narration plan built by create_narration_track
    stages,           \* stages invoked so far, in order, with their outcome
    mix,              \* what add_audio_tracks was asked to do
    concat_list,      \* clip indices written to the concat list
    fs,               \* named files of the output directory
    clip_files,       \* page indices k for which clip_k.mp4 is on disk
    narration_files,  \* page indices k whose per-page narration mp3 is on disk
    result,           \* "running", "None" or the returned path
    call,             \* a direct call of a helper function, or NoCall
    gist,             \* tracker.json as stored in the gist
    tracker_data,     \* Tracker._data: <<>> for None, else the loaded data
    selections        \* series selected by the latest completed daily runs

vars == <<pages_data, music_path, output_name, pc, success, clips, current_time,
          all_dialogues, total_duration, current_video, subs_video, subs_path,
          narration_path, narrations, stages, mix, concat_list, fs, clip_files,
          narration_files, result, call, gist, tracker_data, selections>>

tracker_vars == <<gist, tracker_data, selections>>

inputs == <<pages_data, music_path, output_name>>

\* No helper function is being called directly.
NoCall == [fn |-> "none", arg |-> <<>>, done |-> FALSE, out |-> <<>>,
           again |-> FALSE, out2 |-> <<>>]

\* A tracker without series, and a Tracker object that has loaded nothing.
EmptyTracker == [series |-> <<>>, next_index |-> 0]

\* No tracker is in use.
TrackerUnused ==
    /\ gist = EmptyTracker
    /\ tracker_data = <<>>
    /\ selections = <<>>

\* The external command of add_audio_tracks: whether the tool is run at
\* all, whether the music input is looped (-stream_loop -1), whether the
\* output is cut at the shortest stream (-shortest), and the video codec.
NoCommand == [tool |-> FALSE, loop |-> FALSE, shortest |-> FALSE, vcodec |-> "none"]

NoMix == [mode |-> "none", video |-> NoFile, volume |-> 0, command |-> NoCommand]

Range(s) == {s[k] : k \in 1..Len(s)}

\* What an external tool call can do: exit with code 0, exit with another
\* code, or exceed the timeout of subprocess.run (TimeoutExpired).
ToolOutcomes == {"ok", "error", "timeout"}

\* The timeout= argument of the subprocess.run of each stage, in seconds.
ToolTimeout ==
    [clip |-> 120, concat |-> 300, subs |-> 300, narration |-> 180, mix |-> 300]

\* A timeout that escapes the stage function.
ToolCallRaises_OnTimeout(outcome) == outcome = "timeout"

\* Whether the outcome of the tool call leaves the stage function as an
\* exception: every subprocess.run sits in a try whose except clauses catch
\* TimeoutExpired and Exception and return the failure value.
ToolCallRaises(outcome) == FALSE

\* What a stage function reports of its tool call: success or failure.
Outcome(ok) == IF ok THEN "ok" ELSE "error"

\* page.get("suggested_duration", DEFAULT_PAGE_DURATION)
PageDuration(page) ==
    IF page.suggested_duration = 0 THEN DEFAULT_PAGE_DURATION
    ELSE page.suggested_duration

InitWith(pages, music, name) ==
    /\ pages_data = pages
    /\ music_path = music
    /\ output_name = name
    /\ pc = "render"
    /\ success = <<>>
    /\ clips = <<>>
    /\ current_time = 0
    /\ all_dialogues = <<>>
    /\ total_duration = 0
    /\ current_video = "none"
    /\ subs_video = "none"
    /\ subs_path = "none"
    /\ narration_path = "none"
    /\ narrations = <<>>
    /\ stages = <<>>
    /\ mix = NoMix
    /\ concat_list = <<>>
    /\ fs = [f \in FileNames |-> NoFile]
    /\ clip_files = {}
    /\ narration_files = {k \in 1..Len(pages) : pages[k].narration_audio = "file"}
    /\ result = "running"

\* Any build of at most MaxPages pages.
Init ==
    \E n \in 0..MaxPages : \E pages \in PageLists(n) :
        \E music \in MusicPaths : \E name \in OutputNames :
            /\ InitWith(pages, music, name)
            /\ call = NoCall
            /\ TrackerUnused

\* Builds of at most MaxTimelinePages pages without audio inputs.
InitTimeline ==
    \E n \in 0..MaxTimelinePages : \E pages \in PageLists(n) :
        \E name \in OutputNames :
            /\ \A k \in 1..n : pages[k].narration_audio = "none"
            /\ InitWith(pages, "none", name)
            /\ call = NoCall
            /\ TrackerUnused

\* Builds of at most MaxAudioPages pages that all take the default duration,
\* with every combination of narration text, narration audio and music.
InitAudio ==
    \E n \in 0..MaxAudioPages : \E pages \in PageLists(n) :
        \E music \in MusicPaths : \E name \in OutputNames :
            /\ \A k \in 1..n : pages[k].suggested_duration = 0
            /\ InitWith(pages, music, name)
            /\ call = NoCall
            /\ TrackerUnused

\* The intermediate files an output name can coincide with.
CollidingNames == {concat_path, SubsVideo, SubsPath, NarrationPath}

\* Builds of at most MaxAudioPages pages whose output_name is the name of an
\* intermediate file.
InitCollide ==
    \E n \in 0..MaxAudioPages : \E pages \in PageLists(n) :
        \E music \in MusicPaths : \E name \in CollidingNames :
            /\ \A k \in 1..n : pages[k].suggested_duration = 0
            /\ InitWith(pages, music, name)
            /\ call = NoCall
            /\ TrackerUnused

(* ----------------------- render loop, lines 399-428 -------------------- *)
\* Lines 76-89: the return value of create_clip_from_image; TimeoutExpired
\* and every other exception are caught and reported as False.
ClipReturn(outcome) == outcome = "ok"

\* create_clip_from_image: the external tool exits 0, or fails (non-zero
\* exit, timeout or other exception); a failing tool may leave a partial
\* output file behind.
create_clip_from_image(k, ok, leaves) ==
    clip_files' = IF ok \/ leaves THEN clip_files \cup {k} ELSE clip_files

\* A caption event whose end is the page duration, not an absolute time.
DialogueEvent_EndIsDuration(time, duration, text) ==
    [start |-> time, end |-> duration, text |-> text]

\* Lines 420-424: the caption event of a page rendered at offset time.
DialogueEvent(time, duration, text) ==
    [start |-> time, end |-> time + duration, text |-> text]

\* The offset advanced only for rendered pages that have narration text.
TimeAfter_OnlyNarrated(time, page, ok) ==
    IF ok /\ page.narration # 0 THEN time + PageDuration(page) ELSE time

\* The offset advanced for every page, rendered or not.
TimeAfter_EveryPage(time, page, ok) == time + PageDuration(page)

\* Lines 414-426: the timeline offset after a page; only a rendered page
\* advances it, whether or not it has narration text.
TimeAfter(time, page, ok) ==
    IF ok THEN time + PageDuration(page) ELSE time

RenderPage ==
    /\ pc = "render"
    /\ Len(success) < Len(pages_data)
    /\ LET k == Len(success) + 1
           page == pages_data[k]
           duration == PageDuration(page)
       IN \E outcome \in ToolOutcomes : \E leaves \in BOOLEAN :
            LET ok == ClipReturn(outcome) IN
            /\ (ok => ~leaves)
            /\ create_clip_from_image(k, ok, leaves)
            /\ success' = Append(success, ok)
            /\ IF ok
               THEN /\ clips' = Append(clips, k)
                    /\ all_dialogues' =
                         IF page.narration # 0
                         THEN Append(all_dialogues,
                                     DialogueEvent(current_time, duration,
                                                   page.narration))
                         ELSE all_dialogues
               ELSE UNCHANGED <<clips, all_dialogues>>
            /\ current_time' = TimeAfter(current_time, page, ok)
    /\ UNCHANGED <<inputs, tracker_vars, call, pc, total_duration, current_video, subs_video,
                   subs_path, narration_path, narrations, stages, mix,
                   concat_list, fs, narration_files, result>>

(* ----------------------- zero clips, lines 430-432 --------------------- *)
\* The zero-clips check left out.
HasClips_Unchecked(clip_paths) == TRUE

\* Line 430: `if not clips`.
HasClips(clip_paths) == clip_paths # <<>>

NoClips ==
    /\ pc = "render"
    /\ Len(success) = Len(pages_data)
    /\ ~HasClips(clips)
    /\ result' = "None"
    /\ pc' = "done"
    /\ UNCHANGED <<inputs, tracker_vars, call, success, clips, current_time, all_dialogues,
                   total_duration, current_video, subs_video, subs_path,
                   narration_path, narrations, stages, mix, concat_list, fs,
                   clip_files, narration_files>>

(* ----------------------- concatenation, lines 434-441 ------------------ *)
\* The file system after concatenate_clips(clip_paths, output_path): the
\* concat list is written first; it is unlinked when the tool returns
\* (whatever its exit code) and left behind when the call raises (timeout).
concatenate_clips(outcome, leaves) ==
    [fs EXCEPT
        ![concat_file] = IF outcome = "timeout" THEN ListFile ELSE NoFile,
        ![concat_path] = IF outcome = "ok" THEN VideoFile("timeline", "none", 0)
                         ELSE IF leaves THEN PartialFile
                         ELSE @]

\* The concat list with repeated clip paths written once.
RECURSIVE WriteConcatList_Deduplicated(_)
WriteConcatList_Deduplicated(clip_paths) ==
    IF clip_paths = <<>> THEN <<>>
    ELSE LET front == SubSeq(clip_paths, 1, Len(clip_paths) - 1)
             last == clip_paths[Len(clip_paths)]
         IN IF \E j \in 1..Len(front) : front[j] = last
            THEN WriteConcatList_Deduplicated(front)
            ELSE Append(WriteConcatList_Deduplicated(front), last)

\* Lines 100-102: one `file '<absolute path>'` line per element of
\* clip_paths, in list order; a line is identified by the clip it names.
WriteConcatList(clip_paths) ==
    [j \in 1..Len(clip_paths) |-> clip_paths[j]]

\* concatenate_clips reporting success whatever happened.
ConcatReturn_AlwaysTrue(outcome) == TRUE

\* concatenate_clips reporting success whenever the tool returned.
ConcatReturn_IgnoresExitCode(outcome) == outcome # "timeout"

\* Lines 113-119: the return value of concatenate_clips.
ConcatReturn(outcome) == outcome = "ok"

Concatenate ==
    /\ pc = "render"
    /\ Len(success) = Len(pages_data)
    /\ HasClips(clips)
    /\ total_duration' = current_time
    /\ concat_list' = WriteConcatList(clips)
    /\ \E outcome \in {"ok", "error", "timeout"} : \E leaves \in BOOLEAN :
         /\ (outcome = "ok" => ~leaves)
         /\ fs' = concatenate_clips(outcome, leaves)
         /\ stages' = Append(stages, [stage |-> "concat", outcome |-> outcome])
         /\ IF ConcatReturn(outcome)
            THEN /\ pc' = "subs"
                 /\ result' = result
            ELSE /\ pc' = "done"
                 /\ result' = "None"
    /\ UNCHANGED <<inputs, tracker_vars, call, success, clips, current_time, all_dialogues,
                   current_video, subs_video, subs_path, narration_path,
                   narrations, mix, clip_files, narration_files>>

(* ----------------------- captions, lines 443-454 ----------------------- *)
\* add_subtitles re-encodes the video with the captions burned in and
\* copies the audio stream.
add_subtitles(files, video_path, output_path, ok, leaves) ==
    [files EXCEPT
        ![output_path] = IF ok THEN VideoFile("captioned", files[video_path].audio,
                                              files[video_path].volume)
                         ELSE IF leaves THEN PartialFile
                         ELSE @]

\* Lines 346-351: the return value of add_subtitles.
SubsReturn(outcome) == outcome = "ok"

\* The pointer advanced to the captioned file whatever the burn-in returned.
CurrentVideoAfterSubs_AlwaysAdvanced(ok) == SubsVideo

\* Lines 453-454: the current video after the burn-in attempt.
CurrentVideoAfterSubs(ok) == IF ok THEN SubsVideo ELSE concat_path

AddSubtitles ==
    /\ pc = "subs"
    /\ pc' = "narration"
    /\ IF all_dialogues # <<>>
       THEN /\ subs_path' = SubsPath
            /\ subs_video' = SubsVideo
            /\ \E outcome \in ToolOutcomes : \E leaves \in BOOLEAN :
                 LET ok == SubsReturn(outcome) IN
                 /\ (ok => ~leaves)
                 /\ stages' = Append(stages, [stage |-> "subs",
                                              outcome |-> Outcome(ok)])
                 /\ fs' = add_subtitles([fs EXCEPT ![SubsPath] = AssFile],
                                        concat_path, SubsVideo, ok, leaves)
                 /\ current_video' = CurrentVideoAfterSubs(ok)
       ELSE /\ current_video' = concat_path
            /\ UNCHANGED <<subs_path, subs_video, stages, fs>>
    /\ UNCHANGED <<inputs, tracker_vars, call, success, clips, current_time, all_dialogues,
                   total_duration, narration_path, narrations, mix,
                   concat_list, clip_files, narration_files, result>>

(* ----------------------- narration track, lines 456-466 ---------------- *)
\* Lines 171-186: the narration plan, one entry per page of pages_data whose
\* narration file is on disk, placed at the running sum of page durations.
RECURSIVE NarrationPlan(_, _, _, _)
NarrationPlan(pages, k, time, onDisk) ==
    IF k > Len(pages) THEN <<>>
    ELSE LET page == pages[k]
             rest == NarrationPlan(pages, k + 1, time + PageDuration(page), onDisk)
         IN IF page.narration_audio # "none" /\ k \in onDisk
            THEN <<[file |-> k, start |-> time]>> \o rest
            ELSE rest

\* Narration text taken for narration audio.
has_narration_audio_ByText(pages) ==
    \E k \in 1..Len(pages) : pages[k].narration # 0

\* Line 458: any(p.get("narration_audio") for p in pages_data).
has_narration_audio(pages) ==
    \E k \in 1..Len(pages) : pages[k].narration_audio # "none"

\* The output path returned whatever the tool did.
NarrationReturn_PathOnFailure(outcome, output_path) == output_path

\* Lines 221-231: the return value of create_narration_track once the plan
\* is not empty: the output path, or None on a non-zero exit, a timeout or
\* any other exception.
NarrationReturn(outcome, output_path) ==
    IF outcome = "ok" THEN output_path ELSE "none"

\* The file the tool of create_narration_track leaves at output_path.
create_narration_track(files, output_path, ok, leaves) ==
    [files EXCEPT ![output_path] =
        IF ok THEN NarrationTrack ELSE IF leaves THEN PartialFile ELSE @]

CreateNarrationTrack ==
    /\ pc = "narration"
    /\ pc' = "mix"
    /\ IF has_narration_audio(pages_data)
       THEN LET plan == NarrationPlan(pages_data, 1, 0, narration_files)
            IN /\ narrations' = plan
               /\ IF plan = <<>>
                  THEN /\ narration_path' = "none"
                       /\ fs' = fs
                       /\ stages' = Append(stages, [stage |-> "narration",
                                                    outcome |-> "empty"])
                  ELSE \E outcome \in ToolOutcomes : \E leaves \in BOOLEAN :
                         LET ok == outcome = "ok" IN
                         /\ (ok => ~leaves)
                         /\ stages' = Append(stages, [stage |-> "narration",
                                                      outcome |-> Outcome(ok)])
                         /\ narration_path' = NarrationReturn(outcome, NarrationPath)
                         /\ fs' = create_narration_track(fs, NarrationPath, ok, leaves)
       ELSE UNCHANGED <<stages, narrations, narration_path, fs>>
    /\ UNCHANGED <<inputs, tracker_vars, call, success, clips, current_time, all_dialogues,
                   total_duration, current_video, subs_video, subs_path, mix,
                   concat_list, clip_files, narration_files, result>>

(* ----------------------- audio mix, lines 468-494 --------------------- *)
\* Lines 258-259: a track is used only when a path is given and it exists.
has_narration(files, narration) ==
    narration # "none" /\ files[narration].kind # "none"

\* A music path used without checking that the file exists.
has_music_Unchecked(music) == music # "none"

has_music(music) == music = "file"

\* Lines 261-316: the case add_audio_tracks selects.
MixMode(files, narration, music) ==
    IF ~has_narration(files, narration) /\ ~has_music(music) THEN "copy"
    ELSE IF has_narration(files, narration) /\ has_music(music) THEN "both"
    ELSE IF has_narration(files, narration) THEN "narration"
    ELSE "music"

\* The solo level used in both music cases.
MixVolume_AlwaysSolo(mode) ==
    IF mode \in {"both", "music"} THEN MUSIC_VOLUME ELSE 0

\* The volume filter applied to the music input in the selected case.
MixVolume(mode) ==
    IF mode = "both" THEN MUSIC_VOLUME_WITH_NARRATION
    ELSE IF mode = "music" THEN MUSIC_VOLUME
    ELSE 0

\* The music input of the music cases not looped.
MixCommand_MusicNotLooped(mode) ==
    [tool |-> mode # "copy",
     loop |-> FALSE,
     shortest |-> mode # "copy",
     vcodec |-> IF mode = "copy" THEN "none" ELSE "copy"]

\* Lines 261-316: the command of the selected case; the no-audio case runs
\* no tool (shutil.copy), the music input is looped, every tool run copies
\* the video stream and stops at the shortest stream.
MixCommand(mode) ==
    [tool |-> mode # "copy",
     loop |-> mode \in {"both", "music"},
     shortest |-> mode # "copy",
     vcodec |-> IF mode = "copy" THEN "none" ELSE "copy"]

\* Lines 318-325: the return value of add_audio_tracks when it runs the
\* tool; the no-audio case returns True after shutil.copy (line 265).
MixReturn(outcome) == outcome = "ok"

\* A copied video stream that stops before the end of its source.
Trimmed(v) == IF v = "captioned" THEN "captioned, cut short" ELSE "timeline, cut short"

\* Whether the audio of the command can end before the video: with
\* -shortest the output then ends there.  The narration track is finite (the
\* two-way mix of lines 276-278 has duration=first, the narration); music
\* alone is finite unless it is looped.
AudioMayEndEarly(mode, command) ==
    /\ command.tool
    /\ command.shortest
    /\ (mode \in {"narration", "both"} \/ ~command.loop)

\* The file written at output_path by a successful add_audio_tracks: a plain
\* copy of the input, or the input's video stream, copied up to the end of
\* the shortest stream, with the encoded audio.
MixOutput(files, video_path, mode, short) ==
    IF mode = "copy" THEN files[video_path]
    ELSE VideoFile(IF short THEN Trimmed(files[video_path].video)
                   ELSE files[video_path].video,
                   mode, MixVolume(mode))

\* Lines 496-503: unlink every listed file that exists.
cleanup_temp_files(files, other_files) ==
    [f \in FileNames |-> IF f \in other_files THEN NoFile ELSE files[f]]

\* The fallback rename left out.
rename_Skipped(files, src, dst) == files

\* Line 490: current_video.rename(final_path), replacing the destination.
rename(files, src, dst) ==
    [f \in FileNames |-> IF f = dst THEN files[src]
                         ELSE IF f = src THEN NoFile
                         ELSE files[f]]

\* A failed mix reported as a failed build.
BuildResult_FailsOnMixFailure(mixed, final_path) ==
    IF mixed THEN final_path ELSE "None"

\* Lines 486 and 494: the value build_manga_video returns after the mix.
BuildResult(mixed, final_path) == final_path

\* Lines 478-479: the files removed after a successful mix.
SuccessTempFiles ==
    {concat_path, subs_video, subs_path, narration_path} \ {"none"}

\* Line 491: the files removed after the fallback rename.
FallbackTempFiles ==
    {concat_path, subs_video, subs_path} \ {"none"}

\* Line 264: shutil.copy raises SameFileError when source and destination
\* are the same file; nothing catches it.
CopyRaises(src, dst) == src = dst

\* The tool refuses to write its output onto one of its inputs and exits
\* with an error, leaving the file as it is.
ToolRefuses(mode, video_path, narration, output_path) ==
    /\ MixCommand(mode).tool
    /\ \/ output_path = video_path
       \/ mode \in {"narration", "both"} /\ output_path = narration

AddAudioTracks ==
    /\ pc = "mix"
    /\ pc' = "done"
    /\ LET final_path == output_name
           mode == MixMode(fs, narration_path, music_path)
       IN /\ mix' = [mode |-> mode, video |-> fs[current_video],
                     volume |-> MixVolume(mode),
                     command |-> MixCommand(mode)]
          /\ IF mode = "copy" /\ CopyRaises(current_video, final_path)
             THEN /\ stages' = Append(stages, [stage |-> "mix",
                                               outcome |-> "raised"])
                  /\ result' = "exception"
                  /\ UNCHANGED <<fs, narration_files, clip_files>>
             ELSE /\ \E outcome \in ToolOutcomes : \E leaves \in BOOLEAN :
                     \E short \in BOOLEAN :
                       LET ok == MixReturn(outcome) IN
                       /\ (ok => ~leaves)
                       /\ (~MixCommand(mode).tool => ok)
                       /\ (short => ok /\ AudioMayEndEarly(mode, MixCommand(mode)))
                       /\ (ToolRefuses(mode, current_video, narration_path,
                                       final_path) => ~ok /\ ~leaves)
                       /\ stages' = Append(stages, [stage |-> "mix",
                                                    outcome |-> Outcome(ok)])
                       /\ result' = BuildResult(ok, final_path)
                       /\ IF ok
                          THEN /\ fs' = cleanup_temp_files(
                                          [fs EXCEPT ![final_path] =
                                              MixOutput(fs, current_video, mode,
                                                        short)],
                                          SuccessTempFiles)
                               /\ narration_files' = {}
                          ELSE LET left == IF leaves
                                           THEN [fs EXCEPT ![final_path] = PartialFile]
                                           ELSE fs
                                   renamed == rename(left, current_video, final_path)
                               IN /\ fs' = cleanup_temp_files(renamed,
                                                              FallbackTempFiles)
                                  /\ narration_files' = narration_files
                  /\ clip_files' = clip_files \ Range(clips)
    /\ UNCHANGED <<inputs, tracker_vars, call, success, clips, current_time, all_dialogues,
                   total_duration, current_video, subs_video, subs_path,
                   narration_path, narrations, concat_list>>

Next ==
    \/ RenderPage
    \/ NoClips
    \/ Concatenate
    \/ AddSubtitles
    \/ CreateNarrationTrack
    \/ AddAudioTracks

Spec == Init /\ [][Next]_vars

SpecTimeline == InitTimeline /\ [][Next]_vars

SpecAudio == InitAudio /\ [][Next]_vars

SpecCollide == InitCollide /\ [][Next]_vars

(* ================= helper functions called directly =================== *)
\* Texts are sequences of one-character strings.
Join2(a, sep, b) == a \o sep \o b

RECURSIVE Join(_, _)
\* sep.join(parts)
Join(parts, sep) ==
    IF parts = <<>> THEN <<>>
    ELSE IF Len(parts) = 1 THEN parts[1]
    ELSE Join2(parts[1], sep, Join(Tail(parts), sep))

(* ----------------- format_time_ass, effects.py 203-209 ----------------- *)
\* Times are whole milliseconds.
DigitChars == <<"0", "1", "2", "3", "4", "5", "6", "7", "8", "9">>

RECURSIVE Decimal(_)
\* str(n) for n >= 0
Decimal(n) ==
    IF n < 10 THEN <<DigitChars[n + 1]>>
    ELSE Append(Decimal(n \div 10), DigitChars[(n % 10) + 1])

\* f"{n:02d}": zero-padded to at least two digits
Pad2(n) == IF n < 10 THEN <<"0">> \o Decimal(n) ELSE Decimal(n)

\* The centiseconds rounded to the nearest instead of truncated.
FormatFields_RoundedCentis(ms) ==
    [hours |-> ms \div 3600000,
     minutes |-> (ms % 3600000) \div 60000,
     secs |-> (ms % 60000) \div 1000,
     centis |-> ((ms % 1000) * 100 + 500) \div 1000]

\* The seconds rounded to the nearest instead of truncated.
FormatFields_RoundedSeconds(ms) ==
    [hours |-> ms \div 3600000,
     minutes |-> (ms % 3600000) \div 60000,
     secs |-> ((ms % 60000) + 500) \div 1000,
     centis |-> ((ms % 1000) * 100) \div 1000]

\* Lines 205-208: int(seconds // 3600), int((seconds % 3600) // 60),
\* int(seconds % 60), int((seconds % 1) * 100).
FormatFields(ms) ==
    [hours |-> ms \div 3600000,
     minutes |-> (ms % 3600000) \div 60000,
     secs |-> (ms % 60000) \div 1000,
     centis |-> ((ms % 1000) * 100) \div 1000]

\* Line 209: f"{hours}:{minutes:02d}:{secs:02d}.{centis:02d}"
format_time_ass(ms) ==
    LET f == FormatFields(ms)
    IN Decimal(f.hours) \o <<":">> \o Pad2(f.minutes) \o <<":">>
         \o Pad2(f.secs) \o <<".">> \o Pad2(f.centis)

(* --------------------- wrap_text, effects.py 125-161 ------------------- *)
Space == " "
\* The ASS line-break marker \N.
LineBreak == <<"\\", "N">>

RECURSIVE SplitWords(_, _, _)
\* Line 135: text.split(), the maximal runs of non-space characters.
SplitWords(text, k, word) ==
    IF k > Len(text)
    THEN IF word = <<>> THEN <<>> ELSE <<word>>
    ELSE IF text[k] = Space
    THEN (IF word = <<>> THEN <<>> ELSE <<word>>) \o SplitWords(text, k + 1, <<>>)
    ELSE SplitWords(text, k + 1, Append(word, text[k]))

RECURSIVE GreedyLines(_, _, _, _, _)
\* Lines 136-153: the greedy word wrap; current_line is the list of words
\* of the open line and current_length the length the code tracks for it.
GreedyLines(words, k, current_line, current_length, max_chars) ==
    IF k > Len(words)
    THEN IF current_line # <<>> THEN <<Join(current_line, <<Space>>)>> ELSE <<>>
    ELSE LET word == words[k]
             word_length == Len(word)
         IN IF current_length + word_length
                 + (IF current_line # <<>> THEN 1 ELSE 0) <= max_chars
            THEN GreedyLines(words, k + 1, Append(current_line, word),
                             current_length + word_length
                               + (IF Len(current_line) + 1 > 1 THEN 1 ELSE 0),
                             max_chars)
            ELSE (IF current_line # <<>>
                  THEN <<Join(current_line, <<Space>>)>> ELSE <<>>)
                 \o GreedyLines(words, k + 1, <<word>>, word_length, max_chars)

\* Lines 156-159: more than two lines are merged into two at the midpoint.
MergeLines(lines) ==
    IF Len(lines) > 2
    THEN LET mid == Len(lines) \div 2
         IN <<Join(SubSeq(lines, 1, mid + 1), <<Space>>),
              Join(SubSeq(lines, mid + 2, Len(lines)), <<Space>>)>>
    ELSE lines

\* Line 161: "\\N".join(lines)
wrap_text(text, max_chars) ==
    Join(MergeLines(GreedyLines(SplitWords(text, 1, <<>>), 1, <<>>, 0, max_chars)),
         LineBreak)

(* ----------------- generate_ken_burns, effects.py 51-108 --------------- *)
\* Zoom levels and coordinates are thousandths.
KenBurnsStyles == {"zoom_in", "zoom_out", "pan_left", "pan_right", "random"}
\* Line 58: the styles random.choice picks from.
RandomStyles == <<"zoom_in", "zoom_out", "pan_left", "pan_right">>
\* Values of random.uniform(-0.05, 0.05).
Jitters == {-50, -17, 0, 23, 50}

KenBurnsEffect(sz, ez, sx, sy, ex, ey, duration) ==
    [start_zoom |-> sz, end_zoom |-> ez, start_x |-> sx, start_y |-> sy,
     end_x |-> ex, end_y |-> ey, duration |-> duration]

\* The pan styles zoomed to 105% of zoom_max.
generate_ken_burns_PanOverZoomed(duration, style, pick, jitter1, jitter2) ==
    LET chosen == IF style = "random" THEN RandomStyles[pick] ELSE style
        center == 500
        zoom_min == 1000
        zoom_max == 1200
        pan_offset == 100
        pan_zoom == (zoom_max * 105) \div 100
    IN IF chosen = "zoom_in"
       THEN KenBurnsEffect(zoom_min, zoom_max, center + jitter1,
                           center + jitter2, center, center, duration)
       ELSE IF chosen = "zoom_out"
       THEN KenBurnsEffect(zoom_max, zoom_min, center, center,
                           center + jitter1, center + jitter2, duration)
       ELSE IF chosen = "pan_left"
       THEN KenBurnsEffect(pan_zoom, pan_zoom, center + pan_offset, center,
                           center - pan_offset, center, duration)
       ELSE KenBurnsEffect(pan_zoom, pan_zoom, center - pan_offset, center,
                           center + pan_offset, center, duration)

\* Lines 57-108; pick is the draw of random.choice, jitter1 and jitter2 the
\* two draws of random.uniform.
generate_ken_burns(duration, style, pick, jitter1, jitter2) ==
    LET chosen == IF style = "random" THEN RandomStyles[pick] ELSE style
        center == 500
        zoom_min == 1000
        zoom_max == 1200
        pan_offset == 100
        pan_zoom == (zoom_max * 95) \div 100
    IN IF chosen = "zoom_in"
       THEN KenBurnsEffect(zoom_min, zoom_max, center + jitter1,
                           center + jitter2, center, center, duration)
       ELSE IF chosen = "zoom_out"
       THEN KenBurnsEffect(zoom_max, zoom_min, center, center,
                           center + jitter1, center + jitter2, duration)
       ELSE IF chosen = "pan_left"
       THEN KenBurnsEffect(pan_zoom, pan_zoom, center + pan_offset, center,
                           center - pan_offset, center, duration)
       ELSE KenBurnsEffect(pan_zoom, pan_zoom, center - pan_offset, center,
                           center + pan_offset, center, duration)

(* ------------------------- calls and their inputs ---------------------- *)
Call(fn, arg) ==
    [fn |-> fn, arg |-> arg, done |-> FALSE, out |-> <<>>,
     again |-> FALSE, out2 |-> <<>>]

\* Times around the centisecond, second, minute and hour boundaries, each
\* paired with a later time.
FormatTimes ==
    {h * 3600000 + m * 60000 + sec * 1000 + ms :
        h \in {0, 1, MaxHours}, m \in {0, 59}, sec \in {0, 59}, ms \in 0..999}
TimeSteps == {1, 9, 10, 1000, 60000, 3600000}
FormatCalls ==
    {Call("format_time_ass", <<t, t + step>>) : t \in FormatTimes, step \in TimeSteps}

\* A letter, the space and the two characters of the line-break marker.
TextChars == {"a", Space, "\\", "N"}
Texts == UNION {[1..n -> TextChars] : n \in 0..MaxTextLen}
WrapCalls ==
    {Call("wrap_text", [text |-> t, max_chars |-> w]) :
        t \in Texts, w \in 1..MaxWidth}

ClipLists == UNION {[1..n -> 1..2] : n \in 0..MaxClipList}
ConcatCalls == {Call("concatenate_clips", c) : c \in ClipLists}

KenBurnsCalls ==
    {Call("generate_ken_burns",
          [duration |-> d, style |-> st, pick |-> p, jitter1 |-> j1, jitter2 |-> j2]) :
        d \in {3, 5}, st \in KenBurnsStyles, p \in 1..4, j1 \in Jitters, j2 \in Jitters}

build_vars == <<pages_data, music_path, output_name, pc, success, clips,
                current_time, all_dialogues, total_duration, current_video,
                subs_video, subs_path, narration_path, narrations, stages, mix,
                clip_files, narration_files, result>>

\* A VideoBuilder on which no build is started; one helper is called.
InitFunctions ==
    /\ \E name \in OutputNames : InitWith(<<>>, "none", name)
    /\ call \in FormatCalls \cup ConcatCalls \cup KenBurnsCalls
    /\ TrackerUnused

\* The same, for calls of wrap_text.
InitWrap ==
    /\ \E name \in OutputNames : InitWith(<<>>, "none", name)
    /\ call \in WrapCalls
    /\ TrackerUnused

FormatTimeCall ==
    /\ call.fn = "format_time_ass"
    /\ ~call.done
    /\ call' = [call EXCEPT !.done = TRUE,
                            !.out = <<format_time_ass(call.arg[1]),
                                      format_time_ass(call.arg[2])>>]
    /\ UNCHANGED <<build_vars, tracker_vars, concat_list, fs>>

WrapTextCall ==
    /\ call.fn = "wrap_text"
    /\ ~call.done
    /\ call' = [call EXCEPT !.done = TRUE,
                            !.out = wrap_text(call.arg.text, call.arg.max_chars)]
    /\ UNCHANGED <<build_vars, tracker_vars, concat_list, fs>>

\* wrap_text applied to its own result.
RewrapTextCall ==
    /\ call.fn = "wrap_text"
    /\ call.done
    /\ ~call.again
    /\ call' = [call EXCEPT !.again = TRUE,
                            !.out2 = wrap_text(call.out, call.arg.max_chars)]
    /\ UNCHANGED <<build_vars, tracker_vars, concat_list, fs>>

\* concatenate_clips called with any list of clip paths.
\* What a direct call of a stage function showed: what the tool did, the
\* value returned, whether an exception left the function, and the timeout
\* the tool was run with.
StageResult(stage, outcome, returned) ==
    [tool |-> outcome, returned |-> returned,
     raised |-> ToolCallRaises(outcome), timeout |-> ToolTimeout[stage]]

ConcatenateClipsCall ==
    /\ call.fn = "concatenate_clips"
    /\ ~call.done
    /\ concat_list' = WriteConcatList(call.arg)
    /\ \E outcome \in {"ok", "error", "timeout"} : \E leaves \in BOOLEAN :
         /\ (outcome = "ok" => ~leaves)
         /\ fs' = concatenate_clips(outcome, leaves)
         /\ call' = [call EXCEPT !.done = TRUE,
                                 !.out = StageResult("concat", outcome,
                                                     ConcatReturn(outcome))]
    /\ UNCHANGED <<build_vars, tracker_vars>>

KenBurnsCall ==
    /\ call.fn = "generate_ken_burns"
    /\ ~call.done
    /\ call' = [call EXCEPT !.done = TRUE,
                            !.out = generate_ken_burns(call.arg.duration,
                                        call.arg.style, call.arg.pick,
                                        call.arg.jitter1, call.arg.jitter2)]
    /\ UNCHANGED <<build_vars, tracker_vars, concat_list, fs>>

NextFunctions ==
    \/ FormatTimeCall
    \/ ConcatenateClipsCall
    \/ KenBurnsCall

SpecFunctions == InitFunctions /\ [][NextFunctions]_vars

NextWrap ==
    \/ WrapTextCall
    \/ RewrapTextCall

SpecWrap == InitWrap /\ [][NextWrap]_vars

(* ============== caption events, effects.py 212-279 ===================== *)
RECURSIVE Replace(_, _, _)
\* str.replace(old, new) for a one-character old.
Replace(text, old, new) ==
    IF text = <<>> THEN <<>>
    ELSE (IF text[1] = old THEN new ELSE <<text[1]>>)
         \o Replace(Tail(text), old, new)

\* The braces escaped before the backslashes.
Escape_BracesFirst(text) ==
    Replace(Replace(Replace(text, "{", <<"\\", "{">>), "}", <<"\\", "}">>),
            "\\", <<"\\", "\\">>)

\* Line 246: backslashes are doubled first, then each brace gets a
\* backslash in front.
Escape(text) ==
    Replace(Replace(Replace(text, "\\", <<"\\", "\\">>), "{", <<"\\", "{">>),
            "}", <<"\\", "}">>)

\* The fixed parts of the two override blocks, lines 259-272.
FAD_OPEN ==
    <<"{", "\\", "f", "a", "d", "(">>
GLOW_TAIL ==
    <<")", "\\", "b", "l", "u", "r", "6", "\\", "b", "o", "r", "d", "8",
    "}">>
MAIN_MID ==
    <<")", "\\", "b", "l", "u", "r", "0", ".", "5", "\\", "f", "s", "c",
    "x", "1", "0", "2", "\\", "f", "s", "c", "y", "1", "0", "2", "\\", "t",
    "(", "0", ",">>
MAIN_TAIL ==
    <<",", "\\", "f", "s", "c", "x", "1", "0", "0", "\\", "f", "s", "c",
    "y", "1", "0", "0", ")", "}">>

Minimum(a, b) == IF a < b THEN a ELSE b

\* Lines 258-263: {\fad(in,out)\blur6\bord8}
glow_effects(fade_in_ms, fade_out_ms) ==
    FAD_OPEN \o Decimal(fade_in_ms)
      \o <<",">> \o Decimal(fade_out_ms)
      \o GLOW_TAIL

\* Lines 266-273: {\fad(in,out)\blur0.5\fscx102\fscy102\t(0,pop,\fscx100\fscy100)}
main_effects(fade_in_ms, fade_out_ms) ==
    FAD_OPEN \o Decimal(fade_in_ms)
      \o <<",">> \o Decimal(fade_out_ms)
      \o MAIN_MID
      \o Decimal(Minimum(150, fade_in_ms))
      \o MAIN_TAIL

\* A dialogue line "Dialogue: layer,start,end,style,,0,0,0,,text" by its
\* fields; the style is the list of the name parts written one after another.
DialogueLine(layer, start_ts, end_ts, style, text) ==
    [layer |-> layer, start |-> start_ts, end |-> end_ts, style |-> style,
     text |-> text]

\* The glow line alone.
create_subtitle_event_GlowOnly(start, end, text, style) ==
    LET start_ts == format_time_ass(start)
        end_ts == format_time_ass(end)
        wrapped_text == wrap_text(Escape(text), DEFAULT_MAX_CHARS)
    IN <<DialogueLine(0, start_ts, end_ts, style \o <<"Glow">>,
                      glow_effects(DEFAULT_FADE_IN_MS, DEFAULT_FADE_OUT_MS)
                        \o wrapped_text)>>

\* Lines 242-279: the two lines of a caption event, glow line first.
create_subtitle_event(start, end, text, style) ==
    LET start_ts == format_time_ass(start)
        end_ts == format_time_ass(end)
        wrapped_text == wrap_text(Escape(text), DEFAULT_MAX_CHARS)
    IN <<DialogueLine(0, start_ts, end_ts, style \o <<"Glow">>,
                      glow_effects(DEFAULT_FADE_IN_MS, DEFAULT_FADE_OUT_MS)
                        \o wrapped_text),
         DialogueLine(1, start_ts, end_ts, style,
                      main_effects(DEFAULT_FADE_IN_MS, DEFAULT_FADE_OUT_MS)
                        \o wrapped_text)>>

RECURSIVE create_subtitles_file(_)
\* video.py 363-372: the dialogue lines written after the style sheet, the
\* lines of each event in the order of the dialogue list.
create_subtitles_file(dialogues) ==
    IF dialogues = <<>> THEN <<>>
    ELSE create_subtitle_event(dialogues[1].start, dialogues[1].end,
                               dialogues[1].text, <<"Narration">>)
         \o create_subtitles_file(Tail(dialogues))

\* Caption words: a word of 20 letters, and short words made of the
\* characters that have a meaning in a dialogue line.
LongWord == [i \in 1..20 |-> "a"]
CaptionWords ==
    {LongWord, <<"{">>, <<"a", "}">>, <<"\\">>, <<"\\", "N", "{">>}
\* Captions of at most MaxWords of these words, separated by single spaces.
Captions ==
    {Join(ws, <<Space>>) : ws \in UNION {[1..n -> CaptionWords] : n \in 0..MaxWords}}
\* Start and end of an event in milliseconds.
EventTimes == {<<0, 4000>>, <<4000, 9500>>, <<3599990, 3603000>>}

EventCalls ==
    {Call("create_subtitle_event", [start |-> t[1], end |-> t[2], text |-> c]) :
        t \in EventTimes, c \in Captions}

\* Dialogue lists of at most MaxEvents events that follow one another.
FileCaptions == CaptionWords
DialogueLists ==
    {<<>>}
    \cup {<<[start |-> 0, end |-> 4000, text |-> c]>> : c \in FileCaptions}
    \cup UNION {{[k \in 1..n |-> [start |-> (k - 1) * 4000, end |-> k * 4000,
                                    text |-> cs[k]]] :
                    cs \in [1..n -> FileCaptions]} : n \in 2..MaxEvents}
FileCalls == {Call("create_subtitles_file", d) : d \in DialogueLists}

InitSubtitles ==
    /\ \E name \in OutputNames : InitWith(<<>>, "none", name)
    /\ call \in EventCalls \cup FileCalls
    /\ TrackerUnused

CreateSubtitleEventCall ==
    /\ call.fn = "create_subtitle_event"
    /\ ~call.done
    /\ call' = [call EXCEPT !.done = TRUE,
                            !.out = create_subtitle_event(call.arg.start,
                                        call.arg.end, call.arg.text,
                                        <<"Narration">>)]
    /\ UNCHANGED <<build_vars, tracker_vars, concat_list, fs>>

\* create_subtitles_file(dialogues, subtitles.ass)
CreateSubtitlesFileCall ==
    /\ call.fn = "create_subtitles_file"
    /\ ~call.done
    /\ call' = [call EXCEPT !.done = TRUE,
                            !.out = create_subtitles_file(call.arg)]
    /\ fs' = [fs EXCEPT ![SubsPath] = AssFile]
    /\ UNCHANGED <<build_vars, tracker_vars, concat_list>>

NextSubtitles ==
    \/ CreateSubtitleEventCall
    \/ CreateSubtitlesFileCall

SpecSubtitles == InitSubtitles /\ [][NextSubtitles]_vars

(* ================= stage functions called directly ===================== *)
\* Page durations in microseconds: 4 s, 2.3 s and 2.0007 s.
MicroDurations == {4000000, 2300000, 2000700}

ClipCalls == {Call("create_clip_from_image", k) : k \in 1..MaxPlan}
SubsCalls == {Call("add_subtitles", <<>>)}
\* Pages that all have their narration file on disk, given by duration.
NarrationCalls ==
    {Call("create_narration_track", d) :
        d \in UNION {[1..n -> MicroDurations] : n \in 1..MaxPlan}}
MixCalls ==
    {Call("add_audio_tracks", [narration_path |-> n, music_path |-> m]) :
        n \in {"none", NarrationPath}, m \in MusicPaths}

\* An output directory that holds the concatenated video and a combined
\* narration track; one stage function is called.
InitStages ==
    /\ pages_data = <<>>
    /\ music_path = "none"
    /\ output_name \in OutputNames
    /\ pc = "render"
    /\ success = <<>>
    /\ clips = <<>>
    /\ current_time = 0
    /\ all_dialogues = <<>>
    /\ total_duration = 0
    /\ current_video = "none"
    /\ subs_video = "none"
    /\ subs_path = "none"
    /\ narration_path = "none"
    /\ narrations = <<>>
    /\ stages = <<>>
    /\ mix = NoMix
    /\ concat_list = <<>>
    /\ fs = [f \in FileNames |->
               IF f = concat_path THEN VideoFile("timeline", "none", 0)
               ELSE IF f = NarrationPath THEN NarrationTrack
               ELSE IF f = SubsPath THEN AssFile
               ELSE NoFile]
    /\ clip_files = {}
    /\ narration_files = {}
    /\ result = "running"
    /\ call \in ClipCalls \cup ConcatCalls \cup SubsCalls \cup NarrationCalls
                 \cup MixCalls
    /\ TrackerUnused

CreateClipCall ==
    /\ call.fn = "create_clip_from_image"
    /\ ~call.done
    /\ \E outcome \in ToolOutcomes : \E leaves \in BOOLEAN :
         LET ok == ClipReturn(outcome) IN
         /\ (ok => ~leaves)
         /\ create_clip_from_image(call.arg, ok, leaves)
         /\ call' = [call EXCEPT !.done = TRUE,
                                 !.out = StageResult("clip", outcome, ok)]
    /\ UNCHANGED <<inputs, tracker_vars, pc, success, clips, current_time, all_dialogues,
                   total_duration, current_video, subs_video, subs_path,
                   narration_path, narrations, stages, mix, concat_list, fs,
                   narration_files, result>>

AddSubtitlesCall ==
    /\ call.fn = "add_subtitles"
    /\ ~call.done
    /\ \E outcome \in ToolOutcomes : \E leaves \in BOOLEAN :
         LET ok == SubsReturn(outcome) IN
         /\ (ok => ~leaves)
         /\ fs' = add_subtitles(fs, concat_path, SubsVideo, ok, leaves)
         /\ call' = [call EXCEPT !.done = TRUE,
                                 !.out = StageResult("subs", outcome, ok)]
    /\ UNCHANGED <<build_vars, tracker_vars, concat_list>>

RECURSIVE NarrationStarts(_, _, _)
\* Lines 173-186 for pages that all have their narration file: the start of
\* page k is the sum of the durations of the pages before it.
NarrationStarts(durations, k, time) ==
    IF k > Len(durations) THEN <<>>
    ELSE <<time>> \o NarrationStarts(durations, k + 1, time + durations[k])

\* Line 198: delay_ms = int(narr["start"] * 1000), of a start in microseconds.
DelayMs(start) == start \div 1000

\* Line 200: adelay={delay_ms}|{delay_ms} on input i, one delay per channel.
NarrationFilter(starts) ==
    [i \in 1..Len(starts) |->
        [input |-> i - 1, left |-> DelayMs(starts[i]), right |-> DelayMs(starts[i])]]

CreateNarrationTrackCall ==
    /\ call.fn = "create_narration_track"
    /\ ~call.done
    /\ \E outcome \in ToolOutcomes : \E leaves \in BOOLEAN :
         LET ok == outcome = "ok"
             starts == NarrationStarts(call.arg, 1, 0)
         IN /\ (ok => ~leaves)
            /\ fs' = create_narration_track(fs, NarrationPath, ok, leaves)
            /\ call' = [call EXCEPT
                          !.done = TRUE,
                          !.out = StageResult("narration", outcome,
                                      NarrationReturn(outcome, NarrationPath)),
                          !.out2 = [starts |-> starts,
                                    filter |-> NarrationFilter(starts)]]
    /\ UNCHANGED <<build_vars, tracker_vars, concat_list>>

\* add_audio_tracks(concat_path, final_path, narration_path, music_path)
AddAudioTracksCall ==
    /\ call.fn = "add_audio_tracks"
    /\ ~call.done
    /\ LET mode == MixMode(fs, call.arg.narration_path, call.arg.music_path)
       IN \E outcome \in ToolOutcomes : \E leaves \in BOOLEAN :
          \E short \in BOOLEAN :
            LET ok == MixReturn(outcome) IN
            /\ (ok => ~leaves)
            /\ (~MixCommand(mode).tool => ok)
            /\ (short => ok /\ AudioMayEndEarly(mode, MixCommand(mode)))
            /\ fs' = [fs EXCEPT ![output_name] =
                        IF ok THEN MixOutput(fs, concat_path, mode, short)
                        ELSE IF leaves THEN PartialFile ELSE @]
            /\ call' = [call EXCEPT
                          !.done = TRUE,
                          !.out = StageResult("mix",
                                      IF MixCommand(mode).tool THEN outcome
                                      ELSE "none", ok),
                          !.out2 = MixCommand(mode)]
    /\ UNCHANGED <<build_vars, tracker_vars, concat_list>>

NextStages ==
    \/ CreateClipCall
    \/ ConcatenateClipsCall
    \/ AddSubtitlesCall
    \/ CreateNarrationTrackCall
    \/ AddAudioTracksCall

SpecStages == InitStages /\ [][NextStages]_vars

(* ---------- Tracker (scheduler/tracker.py) and run_daily --------------- *)
\* mangadex_id of a series; a series entry is modelled by its id.
SeriesIds == 1..MaxSeries
\* The None that get_next_series returns for an empty list.
NoSeries == 0

\* Series lists: add_series never adds an id that is already listed.
SeriesLists ==
    UNION {{l \in [1..n -> SeriesIds] : \A i, j \in 1..n : l[i] = l[j] => i = j} :
              n \in 0..MaxSeries}

\* tracker.json: the series list and next_index.  An index left behind by
\* remove_series can be as large as the list once was long, minus one.
TrackerStates == [series : SeriesLists, next_index : 0..(MaxSeries - 1)]

\* Lines 110-131.
add_series(data, mangadex_id) ==
    IF \E k \in 1..Len(data.series) : data.series[k] = mangadex_id
    THEN data
    ELSE [data EXCEPT !.series = Append(@, mangadex_id)]

\* Lines 133-139.
remove_series(data, mangadex_id) ==
    [data EXCEPT !.series = SelectSeq(@, LAMBDA s : s # mangadex_id)]

\* Lines 141-150.
get_next_series(data) ==
    LET series_list == data.series IN
    IF series_list = <<>> THEN NoSeries
    ELSE series_list[(data.next_index % Len(series_list)) + 1]

\* The index moves on by two, skipping a series.
advance_index_SkipsOne(data) ==
    LET series_count == Len(data.series) IN
    IF series_count > 0
    THEN [data EXCEPT !.next_index = (@ + 2) % series_count]
    ELSE data

\* Lines 152-157.
advance_index(data) ==
    LET series_count == Len(data.series) IN
    IF series_count > 0
    THEN [data EXCEPT !.next_index = (@ + 1) % series_count]
    ELSE data

\* Lines 103-108, the data property: _data, loaded from the gist when it
\* is still None.  A load that fails raises and changes nothing.
Data == IF tracker_data = <<>> THEN gist ELSE tracker_data[1]

\* A tracker document in the gist, a Tracker object that has loaded nothing.
InitTracker ==
    /\ \E name \in OutputNames : InitWith(<<>>, "none", name)
    /\ call = NoCall
    /\ gist \in TrackerStates
    /\ tracker_data = <<>>
    /\ selections = <<>>

\* Lines 55-76, a successful load.
Load ==
    /\ tracker_data' = <<gist>>
    /\ call' = NoCall
    /\ UNCHANGED <<build_vars, concat_list, fs, gist, selections>>

\* Lines 78-101: the PATCH either stores the document (status 200) or is
\* refused, and then save raises.  Without data save raises before it.
Save ==
    /\ tracker_data # <<>>
    /\ \E stored \in BOOLEAN :
         /\ gist' = IF stored THEN tracker_data[1] ELSE gist
         /\ selections' = IF gist' # gist THEN <<>> ELSE selections
    /\ call' = NoCall
    /\ UNCHANGED <<build_vars, concat_list, fs, tracker_data>>

AddSeries ==
    /\ \E mangadex_id \in SeriesIds :
         tracker_data' = <<add_series(Data, mangadex_id)>>
    /\ call' = NoCall
    /\ UNCHANGED <<build_vars, concat_list, fs, gist, selections>>

RemoveSeries ==
    /\ \E mangadex_id \in SeriesIds :
         tracker_data' = <<remove_series(Data, mangadex_id)>>
    /\ call' = NoCall
    /\ UNCHANGED <<build_vars, concat_list, fs, gist, selections>>

AdvanceIndex ==
    /\ tracker_data' = <<advance_index(Data)>>
    /\ call' = NoCall
    /\ UNCHANGED <<build_vars, concat_list, fs, gist, selections>>

GetNextSeries ==
    /\ tracker_data' = <<Data>>
    /\ call' = [fn |-> "get_next_series", arg |-> Data, done |-> TRUE,
                out |-> get_next_series(Data), again |-> FALSE, out2 |-> <<>>]
    /\ UNCHANGED <<build_vars, concat_list, fs, gist, selections>>

\* How far a run of run_daily gets when the tracker loads and lists a
\* series: no new chapter (lines 75-80); an exception before the upload is
\* recorded, raised by the chapter search, the download, the analysis, the
\* music fetch, the build (line 147 for a build that returns None) or the
\* upload; or the upload recorded (lines 167-172).
RunSteps == {"no_chapter", "error", "uploaded"}

\* The runs that complete.
Completed == {"no_chapter", "uploaded"}

\* The latest MaxSeries entries of a sequence.
Latest(seq) ==
    IF Len(seq) > MaxSeries THEN SubSeq(seq, Len(seq) - MaxSeries + 1, Len(seq))
    ELSE seq

\* automation.py 43-181, one run of run_daily.
RunDaily ==
    \E loaded \in BOOLEAN : \E step \in RunSteps : \E stored \in BOOLEAN :
        LET data == gist
            series == get_next_series(data)
            advanced == advance_index(data)
            outcome == IF ~loaded THEN "load_error"
                       ELSE IF data.series = <<>> THEN "no_series"
                       ELSE IF step \in Completed /\ ~stored THEN "save_error"
                       ELSE step
        IN /\ tracker_data' = IF outcome = "load_error" THEN tracker_data
                              ELSE IF outcome \in {"no_series", "error"} THEN <<data>>
                              ELSE <<advanced>>
           /\ gist' = IF outcome \in Completed THEN advanced ELSE gist
           /\ selections' = IF outcome \in Completed
                            THEN Latest(Append(selections, series))
                            ELSE selections
           /\ call' = [fn |-> "run_daily", arg |-> gist, done |-> TRUE,
                       out |-> [outcome |-> outcome,
                                series |-> IF outcome \in {"load_error", "no_series"}
                                           THEN NoSeries ELSE series],
                       again |-> FALSE, out2 |-> gist']
           /\ UNCHANGED <<build_vars, concat_list, fs>>

NextTracker ==
    \/ Load
    \/ Save
    \/ AddSeries
    \/ RemoveSeries
    \/ AdvanceIndex
    \/ GetNextSeries
    \/ RunDaily

SpecTracker == InitTracker /\ [][NextTracker]_vars

(* ======================= properties of the build ======================= *)
Rendered == {k \in 1..Len(success) : success[k]}

AllRendered == \A k \in 1..Len(success) : success[k]

\* Sum of the durations of the pages 1..n that are in counted.
RECURSIVE SumOfDurations(_, _)
SumOfDurations(n, counted) ==
    IF n = 0 THEN 0
    ELSE SumOfDurations(n - 1, counted)
           + (IF n \in counted THEN PageDuration(pages_data[n]) ELSE 0)

\* The rendered pages among 1..n, in page order.
RECURSIVE RenderedSeq(_)
RenderedSeq(n) ==
    IF n = 0 THEN <<>>
    ELSE RenderedSeq(n - 1) \o (IF success[n] THEN <<n>> ELSE <<>>)

\* The caption events of the rendered pages among 1..n that have text.
RECURSIVE ExpectedDialogues(_)
ExpectedDialogues(n) ==
    IF n = 0 THEN <<>>
    ELSE ExpectedDialogues(n - 1) \o
         (IF success[n] /\ pages_data[n].narration # 0
          THEN <<[start |-> SumOfDurations(n - 1, Rendered),
                  end |-> SumOfDurations(n - 1, Rendered)
                            + PageDuration(pages_data[n]),
                  text |-> pages_data[n].narration]>>
          ELSE <<>>)

StageOutcome(stage, outcome) ==
    \E j \in 1..Len(stages) : stages[j] = [stage |-> stage, outcome |-> outcome]

ConcatFailed == StageOutcome("concat", "error") \/ StageOutcome("concat", "timeout")

\* C1: when every page renders, the caption event of each page n that has
\* narration text starts at the sum of the durations of the pages before n
\* and ends one page duration later (default duration when none is given).
C1_EventTimes ==
    AllRendered =>
        \A n \in 1..Len(success) :
            pages_data[n].narration # 0 =>
                /\ Cardinality({j \in 1..Len(all_dialogues) :
                        all_dialogues[j].text = pages_data[n].narration}) = 1
                /\ \A j \in 1..Len(all_dialogues) :
                        all_dialogues[j].text = pages_data[n].narration =>
                            /\ all_dialogues[j].start
                                 = SumOfDurations(n - 1, 1..(n - 1))
                            /\ all_dialogues[j].end
                                 = all_dialogues[j].start
                                   + PageDuration(pages_data[n])

C1_Witness ==
    /\ pc = "done"
    /\ result = output_name
    /\ Len(pages_data) = 3
    /\ AllRendered
    /\ pages_data[1].suggested_duration = 0
    /\ Len(all_dialogues) = 3
    /\ all_dialogues[3].start = DEFAULT_PAGE_DURATION + 5
    /\ all_dialogues[3].end = DEFAULT_PAGE_DURATION + 5 + 3

\* C2: the caption events are exactly, in page order, those of the rendered
\* pages with non-empty narration text; a page without text produces no
\* event and still advances the offset (durations 4,5,3 with text on the
\* first and third page give events 0-4 and 9-12).
C2_EventsOneToOne ==
    /\ all_dialogues = ExpectedDialogues(Len(success))
    /\ ( /\ Len(success) = 3
         /\ AllRendered
         /\ PageDuration(pages_data[1]) = 4
         /\ PageDuration(pages_data[2]) = 5
         /\ PageDuration(pages_data[3]) = 3
         /\ pages_data[1].narration # 0
         /\ pages_data[2].narration = 0
         /\ pages_data[3].narration # 0 )
       => all_dialogues = <<[start |-> 0, end |-> 4, text |-> 1],
                            [start |-> 9, end |-> 12, text |-> 3]>>

C2_Witness ==
    /\ pc = "done"
    /\ Len(success) = 3
    /\ AllRendered
    /\ PageDuration(pages_data[1]) = 4
    /\ PageDuration(pages_data[2]) = 5
    /\ PageDuration(pages_data[3]) = 3
    /\ pages_data[2].narration = 0
    /\ Len(all_dialogues) = 2
    /\ all_dialogues[2].start = 9

\* C3: for every render pattern with at least one success, the clip list
\* handed to concatenation is exactly the rendered pages in page order and
\* the total duration is the sum of their durations; a failed page adds no
\* clip, no caption event and no duration, and the build goes on.
C3_ClipsAndDuration ==
    /\ clips = RenderedSeq(Len(success))
    /\ current_time = SumOfDurations(Len(success), Rendered)
    /\ \A j \in 1..Len(all_dialogues) : all_dialogues[j].text \in Rendered
    /\ (Len(success) = Len(pages_data) /\ Rendered # {} /\ pc # "render") =>
            /\ stages # <<>>
            /\ stages[1].stage = "concat"
            /\ concat_list = RenderedSeq(Len(pages_data))
            /\ total_duration = SumOfDurations(Len(pages_data), Rendered)

C3_Witness ==
    /\ pc = "done"
    /\ result = output_name
    /\ success = <<TRUE, FALSE, TRUE>>
    /\ concat_list = <<1, 3>>
    /\ total_duration = PageDuration(pages_data[1]) + PageDuration(pages_data[3])
    /\ total_duration < SumOfDurations(3, 1..3)
    /\ pages_data[2].narration # 0

\* C4: when no page renders (an empty page list included) the build returns
\* None, invokes no later stage and leaves nothing at the output path.
C4_ZeroClipsFails ==
    (Len(success) = Len(pages_data) /\ Rendered = {}) =>
        /\ stages = <<>>
        /\ mix = NoMix
        /\ fs[output_name] = NoFile
        /\ pc \in {"render", "done"}
        /\ result = (IF pc = "done" THEN "None" ELSE "running")

C4_Witness ==
    /\ pc = "done"
    /\ result = "None"
    /\ Len(pages_data) >= 2
    /\ Len(success) = Len(pages_data)
    /\ Rendered = {}

\* C5: when concatenation fails (tool error or timeout) the build returns
\* None, runs no caption, narration or mix stage, and leaves nothing at the
\* output path.
C5_ConcatFailureFails ==
    ConcatFailed =>
        /\ pc = "done"
        /\ result = "None"
        /\ Len(stages) = 1
        /\ mix = NoMix
        /\ fs[output_name] = NoFile

C5_Witness ==
    /\ StageOutcome("concat", "error")
    /\ result = "None"
    /\ Len(clips) >= 2

\* C6: once concatenation has succeeded the build returns the final path
\* whatever the caption, narration-track and mix outcomes are; it returns
\* None only when no clip rendered or concatenation failed.
C6_ReturnsPathAfterConcat ==
    /\ StageOutcome("concat", "ok") =>
            /\ result \in {"running", output_name}
            /\ pc = "done" => result = output_name
            /\ pc # "done" => ENABLED Next
    /\ result = "None" => (clips = <<>> \/ ConcatFailed)
    /\ pc = "done" => result # "running"

C6_Witness ==
    /\ pc = "done"
    /\ result = output_name
    /\ StageOutcome("subs", "error")
    /\ StageOutcome("narration", "error")
    /\ StageOutcome("mix", "error")

\* C7: whenever the build returns a final artifact, after a successful mix
\* or after the fallback, no intermediate remains: per-page clips,
\* concat_temp.mp4, subtitles.ass, with_subs.mp4, narration_combined.aac
\* and the per-page narration files are all gone.
C7_NoIntermediatesRemain ==
    (pc = "done" /\ result # "None") =>
        /\ clip_files \cap Range(clips) = {}
        /\ \A f \in {concat_path, SubsPath, SubsVideo, NarrationPath} :
                fs[f] = NoFile
        /\ narration_files = {}

\* C8: when concatenation fails, the per-page clips, concat_list.txt and
\* concat_temp.mp4 are all gone by the time the build returns.
C8_ConcatFailureCleansUp ==
    (pc = "done" /\ ConcatFailed) =>
        /\ clip_files \cap Range(clips) = {}
        /\ fs[concat_file] = NoFile
        /\ fs[concat_path] = NoFile

\* C9: when the audio mix fails, the file at the output path is the pre-mix
\* current video (captioned if the burn-in succeeded, the concatenated
\* video otherwise), moved there, and the build returns that path.
C9_MixFailureFallback ==
    StageOutcome("mix", "error") =>
        /\ result = output_name
        /\ fs[output_name] = mix.video
        /\ mix.video = VideoFile(IF StageOutcome("subs", "ok")
                                 THEN "captioned" ELSE "timeline", "none", 0)
        /\ current_video = (IF StageOutcome("subs", "ok")
                            THEN SubsVideo ELSE concat_path)
        /\ fs[current_video] = NoFile

C9_Witness ==
    /\ StageOutcome("mix", "error")
    /\ StageOutcome("subs", "ok")
    /\ fs[output_name] = VideoFile("captioned", "none", 0)
    /\ result = output_name

\* C10 as stated: with an existing music file and narration audio on disk
\* for at least one page, the music in the final mix is at the ducked level.
C10_DuckedWhenNarrationAudio ==
    ( /\ StageOutcome("mix", "ok")
      /\ music_path = "file"
      /\ \E k \in 1..Len(pages_data) : pages_data[k].narration_audio = "file" )
    => /\ mix.volume = MUSIC_VOLUME_WITH_NARRATION
       /\ fs[output_name].volume = MUSIC_VOLUME_WITH_NARRATION

\* C10 amended: with an existing music file and a combined narration track
\* that was built successfully, the music of the mix is at the ducked level
\* and never at the solo level; when pages carry narration audio and the
\* narration track could not be built the music is at the solo level.
C10_DuckedWhenTrackBuilt ==
    (mix.mode # "none" /\ music_path = "file") =>
        /\ StageOutcome("narration", "ok") =>
              /\ mix.mode = "both"
              /\ mix.volume = MUSIC_VOLUME_WITH_NARRATION
              /\ mix.volume # MUSIC_VOLUME
              /\ StageOutcome("mix", "ok") =>
                    /\ fs[output_name].audio = "both"
                    /\ fs[output_name].volume = MUSIC_VOLUME_WITH_NARRATION
        /\ (StageOutcome("narration", "error")
              \/ StageOutcome("narration", "empty")) =>
              /\ mix.mode = "music"
              /\ mix.volume = MUSIC_VOLUME
              /\ StageOutcome("mix", "ok") =>
                    fs[output_name].volume = MUSIC_VOLUME

C10_Witness ==
    /\ pc = "done"
    /\ music_path = "file"
    /\ mix.mode = "both"
    /\ StageOutcome("narration", "ok")
    /\ StageOutcome("mix", "ok")
    /\ fs[output_name].volume = MUSIC_VOLUME_WITH_NARRATION

StageRun(stage) == \E j \in 1..Len(stages) : stages[j].stage = stage

\* C11: with an existing music file and no page carrying narration audio
\* (narration text does not count), no narration-track build is attempted
\* and the mix loops the music at the solo level, never the ducked level,
\* cut at the video length.
C11_MusicOnlySolo ==
    ( /\ mix.mode # "none"
      /\ music_path = "file"
      /\ \A k \in 1..Len(pages_data) : pages_data[k].narration_audio = "none" )
    => /\ ~StageRun("narration")
       /\ narrations = <<>>
       /\ mix.mode = "music"
       /\ mix.volume = MUSIC_VOLUME
       /\ mix.volume # MUSIC_VOLUME_WITH_NARRATION
       /\ mix.command.loop
       /\ mix.command.shortest
       /\ StageOutcome("mix", "ok") =>
              /\ fs[output_name].audio = "music"
              /\ fs[output_name].volume = MUSIC_VOLUME

C11_Witness ==
    /\ pc = "done"
    /\ music_path = "file"
    /\ \A k \in 1..Len(pages_data) : pages_data[k].narration_audio = "none"
    /\ \E k \in 1..Len(pages_data) : pages_data[k].narration # 0
    /\ StageOutcome("mix", "ok")
    /\ fs[output_name].audio = "music"
    /\ fs[output_name].volume = MUSIC_VOLUME

\* C12: when the mixer has neither a narration track nor an existing music
\* file, it copies the input video unchanged to the output path without
\* running the external tool and reports success: the build ends with a
\* silent final artifact.
C12_PassThrough ==
    (mix.mode # "none" /\ music_path # "file" /\ narration_path = "none") =>
        /\ mix.mode = "copy"
        /\ ~mix.command.tool
        /\ StageOutcome("mix", "ok")
        /\ result = output_name
        /\ fs[output_name] = mix.video
        /\ fs[output_name].kind = "video"
        /\ fs[output_name].audio = "none"

C12_Witness ==
    /\ pc = "done"
    /\ music_path = "missing"
    /\ StageOutcome("narration", "error")
    /\ mix.mode = "copy"
    /\ result = output_name
    /\ fs[output_name] = VideoFile("timeline", "none", 0)

\* The narration plan over the rendered pages among 1..n whose narration
\* file is on disk, each placed at the timeline start of its clip.
RECURSIVE ExpectedPlan(_)
ExpectedPlan(n) ==
    IF n = 0 THEN <<>>
    ELSE ExpectedPlan(n - 1) \o
         (IF success[n] /\ pages_data[n].narration_audio = "file"
          THEN <<[file |-> n, start |-> SumOfDurations(n - 1, Rendered)]>>
          ELSE <<>>)

\* C13: for every render pattern the narration plan has an entry only for
\* pages whose clip was rendered, in page order, each at the timeline start
\* of that page's clip (the start of the page's caption event).
C13_PlanFollowsTimeline ==
    StageRun("narration") => narrations = ExpectedPlan(Len(pages_data))

\* C20: the caption burn-in is attempted exactly when there is a caption
\* event; after a successful burn-in the mix gets the captioned video,
\* after a failed one it gets the concatenated video and the build goes on.
C20_CaptionBurnIn ==
    (StageOutcome("concat", "ok") /\ pc \in {"narration", "mix", "done"}) =>
        /\ StageRun("subs") <=> all_dialogues # <<>>
        /\ current_video =
              (IF StageOutcome("subs", "ok") THEN SubsVideo ELSE concat_path)
        /\ pc # "done" =>
              /\ ENABLED Next
              /\ fs[current_video] =
                    VideoFile(IF StageOutcome("subs", "ok")
                              THEN "captioned" ELSE "timeline", "none", 0)
        /\ mix.mode # "none" =>
              mix.video = VideoFile(IF StageOutcome("subs", "ok")
                                    THEN "captioned" ELSE "timeline", "none", 0)
        /\ result # "None"
        /\ pc = "done" => result = output_name

C20_Witness ==
    /\ pc = "done"
    /\ StageOutcome("subs", "error")
    /\ StageOutcome("mix", "ok")
    /\ mix.video = VideoFile("timeline", "none", 0)
    /\ result = output_name

(* ================= properties of the helper functions ================== *)
Called(fn) == call.fn = fn /\ call.done

IsDigit(c) == \E d \in 1..10 : DigitChars[d] = c
DigitValue(c) == (CHOOSE d \in 1..10 : DigitChars[d] = c) - 1

RECURSIVE ParseNat(_)
\* The number a string of digits denotes.
ParseNat(digits) ==
    IF digits = <<>> THEN 0
    ELSE 10 * ParseNat(SubSeq(digits, 1, Len(digits) - 1))
           + DigitValue(digits[Len(digits)])

\* A string of the shape H:MM:SS.CC, hours of one or more digits without
\* zero padding, the other fields of exactly two digits.
IsAssTime(str) ==
    LET n == Len(str)
    IN /\ n >= 10
       /\ str[n - 2] = "."
       /\ str[n - 5] = ":"
       /\ str[n - 8] = ":"
       /\ \A k \in 1..n : k \notin {n - 2, n - 5, n - 8} => IsDigit(str[k])
       /\ (n - 9 > 1 => str[1] # "0")

\* The four numbers read back from a string of that shape.
AssFields(str) ==
    LET n == Len(str)
    IN <<ParseNat(SubSeq(str, 1, n - 9)), ParseNat(SubSeq(str, n - 7, n - 6)),
         ParseNat(SubSeq(str, n - 4, n - 3)), ParseNat(SubSeq(str, n - 1, n))>>

\* The whole hours, minutes, seconds and centiseconds of t milliseconds.
FloorFields(t) ==
    <<t \div 3600000, (t \div 60000) % 60, (t \div 1000) % 60, (t \div 10) % 100>>

LexLeq(a, b) ==
    \/ a = b
    \/ \E k \in 1..4 : a[k] < b[k] /\ \A j \in 1..(k - 1) : a[j] = b[j]

CountMarkers(str) ==
    Cardinality({k \in 1..(Len(str) - 1) : str[k] = "\\" /\ str[k + 1] = "N"})

RECURSIVE Unbroken(_, _)
\* The text with every line-break marker replaced by a space.
Unbroken(str, k) ==
    IF k > Len(str) THEN <<>>
    ELSE IF k < Len(str) /\ str[k] = "\\" /\ str[k + 1] = "N"
    THEN <<Space>> \o Unbroken(str, k + 2)
    ELSE <<str[k]>> \o Unbroken(str, k + 1)

\* C16: for every text and max_chars wrap_text returns at most two lines
\* (at most one line-break marker); when the greedy wrap yields n > 2 lines
\* the result is exactly two non-empty lines, the greedy lines on each side
\* of the midpoint of the list joined by spaces, and the words of the result
\* are the words of the text, in order and none dropped.
C16_AtMostTwoLines ==
    Called("wrap_text") =>
        LET words == SplitWords(call.arg.text, 1, <<>>)
            lines == GreedyLines(words, 1, <<>>, 0, call.arg.max_chars)
            n == Len(lines)
            first == Join(SubSeq(lines, 1, (n \div 2) + 1), <<Space>>)
            second == Join(SubSeq(lines, (n \div 2) + 2, n), <<Space>>)
        IN /\ CountMarkers(call.out) <= 1
           /\ n > 2 => /\ first # <<>>
                       /\ second # <<>>
                       /\ call.out = first \o LineBreak \o second
           /\ SplitWords(Unbroken(call.out, 1), 1, <<>>)
                = SplitWords(Unbroken(call.arg.text, 1), 1, <<>>)

\* C17: wrapping is idempotent: wrap_text applied to its own result returns
\* that result unchanged, with the same number of lines and the same content.
C17_WrapIdempotent ==
    (Called("wrap_text") /\ call.again) =>
        /\ CountMarkers(call.out2) = CountMarkers(call.out)
        /\ call.out2 = call.out

\* C18: the concat list written by concatenate_clips has exactly one entry
\* per element of the input clip list, in the order of the input: nothing is
\* reordered, deduplicated or dropped, and a clip given twice is listed twice.
C18_ConcatListFaithful ==
    Called("concatenate_clips") =>
        /\ Len(concat_list) = Len(call.arg)
        /\ \A j \in 1..Len(call.arg) : concat_list[j] = call.arg[j]

C18_Witness ==
    /\ Called("concatenate_clips")
    /\ call.arg = <<1, 2, 1>>
    /\ concat_list = <<1, 2, 1>>

\* The style generate_ken_burns works with after the random choice.
ChosenStyle ==
    IF call.arg.style = "random" THEN RandomStyles[call.arg.pick] ELSE call.arg.style

Within(x, centre, radius) == centre - radius <= x /\ x <= centre + radius

\* C19: for every duration and style the effect's start and end zoom lie in
\* [1.0, 1.2] and its four coordinates in [0, 1]; the jittered coordinates of
\* the two zoom styles lie within 0.05 of the centre 0.5.
C19_KenBurnsRanges ==
    Called("generate_ken_burns") =>
        LET e == call.out
        IN /\ e.start_zoom \in 1000..1200
           /\ e.end_zoom \in 1000..1200
           /\ \A c \in {e.start_x, e.start_y, e.end_x, e.end_y} : c \in 0..1000
           /\ ChosenStyle = "zoom_in" =>
                Within(e.start_x, 500, 50) /\ Within(e.start_y, 500, 50)
           /\ ChosenStyle = "zoom_out" =>
                Within(e.end_x, 500, 50) /\ Within(e.end_y, 500, 50)

C19_Witness ==
    /\ Called("generate_ken_burns")
    /\ call.arg.style = "random"
    /\ ChosenStyle = "zoom_out"
    /\ call.out.end_x = 450
    /\ call.out.end_y = 550
    /\ call.out.start_zoom = 1200

(* ================== properties of the build, continued ================= *)
NarrationBuildFailed ==
    StageOutcome("narration", "error") \/ StageOutcome("narration", "empty")

\* C21: when the combined narration track cannot be built (tool error,
\* timeout, or no narration file on disk) the build goes on: the audio mix
\* runs without a narration track, music only when the music file exists and
\* pass-through otherwise, and build_manga_video does not return failure on
\* that account.
C21_NarrationFailureNonFatal ==
    NarrationBuildFailed =>
        /\ narration_path = "none"
        /\ pc = "done" =>
             /\ StageRun("mix")
             /\ mix.mode = (IF music_path = "file" THEN "music" ELSE "copy")
             /\ result = output_name

C21_Witness ==
    /\ pc = "done"
    /\ StageOutcome("narration", "error")
    /\ fs[NarrationPath] = PartialFile
    /\ music_path = "file"
    /\ mix.mode = "music"
    /\ StageOutcome("mix", "ok")
    /\ result = output_name

\* C22 as stated: in each mixer case the final artifact's video stream is
\* identical to that of the mixer's input video.
C22_VideoStreamIdentical ==
    (pc = "done" /\ StageOutcome("mix", "ok")) =>
        /\ fs[output_name].kind = "video"
        /\ fs[output_name].video = mix.video.video

\* C22, amended: in each mixer case the video is never re-encoded: the
\* no-audio case copies the file as it is without running the tool, the
\* other three copy the video stream and encode audio only.  With music
\* alone (looped) the whole video stream is kept; with a narration track the
\* output is cut at the shortest stream, so the final video stream is that
\* of the mixer's input or a leading part of it.
C22_VideoStreamCopied ==
    (pc = "done" /\ StageOutcome("mix", "ok")) =>
        /\ fs[output_name].kind = "video"
        /\ mix.mode = "copy" =>
             ~mix.command.tool /\ fs[output_name] = mix.video
        /\ mix.mode # "copy" =>
             /\ mix.command.tool
             /\ mix.command.vcodec = "copy"
             /\ fs[output_name].audio = mix.mode
        /\ mix.mode \in {"copy", "music"} =>
             fs[output_name].video = mix.video.video
        /\ mix.mode \in {"narration", "both"} =>
             fs[output_name].video \in {mix.video.video, Trimmed(mix.video.video)}

C22_Witness ==
    /\ pc = "done"
    /\ StageOutcome("mix", "ok")
    /\ mix.mode = "narration"
    /\ mix.command.vcodec = "copy"
    /\ mix.video.video = "captioned"
    /\ fs[output_name].video = Trimmed("captioned")

\* C23: the delay applied to a narration file whose start offset is s
\* seconds is round(s * 1000) milliseconds, the same on both channels.
C23_DelayRounded ==
    Called("create_narration_track") =>
        \A i \in 1..Len(call.out2.starts) :
            /\ call.out2.filter[i].left = (call.out2.starts[i] + 500) \div 1000
            /\ call.out2.filter[i].right = call.out2.filter[i].left

(* ==================== properties of the caption lines ================== *)
RECURSIVE BackslashRun(_, _)
\* The number of consecutive backslashes that end just before position k.
BackslashRun(str, k) ==
    IF k > 1 /\ str[k - 1] = "\\" THEN 1 + BackslashRun(str, k - 1) ELSE 0

\* The positions of the character c that no backslash escapes.
Unescaped(str, c) ==
    {k \in 1..Len(str) : str[k] = c /\ BackslashRun(str, k) % 2 = 0}

RECURSIVE EscapedCharwise(_)
\* The text with a backslash put before each backslash and each brace.
EscapedCharwise(text) ==
    IF text = <<>> THEN <<>>
    ELSE (IF text[1] \in {"\\", "{", "}"} THEN <<"\\", text[1]>> ELSE <<text[1]>>)
         \o EscapedCharwise(Tail(text))

\* C24: in every dialogue line of create_subtitle_event each backslash and
\* brace of the caption text carries a preceding backslash, put there before
\* the text is wrapped and before the markup is added: the line's text is
\* one override block followed by the wrapped escaped caption, and the only
\* unescaped braces are the two of that block.
C24_CaptionEscaped ==
    Called("create_subtitle_event") =>
        \A j \in 1..Len(call.out) :
            LET text == call.out[j].text
                close == CHOOSE k \in 1..Len(text) :
                             /\ text[k] = "}"
                             /\ \A i \in 1..(k - 1) : text[i] # "}"
            IN /\ text[1] = "{"
               /\ Unescaped(text, "{") = {1}
               /\ Unescaped(text, "}") = {close}
               /\ SubSeq(text, close + 1, Len(text))
                    = wrap_text(EscapedCharwise(call.arg.text), DEFAULT_MAX_CHARS)

C24_Witness ==
    /\ Called("create_subtitle_event")
    /\ call.arg.text = LongWord \o <<Space>> \o LongWord \o <<Space>>
                         \o <<"\\", "N", "{">>
    /\ call.out[2].text =
         main_effects(DEFAULT_FADE_IN_MS, DEFAULT_FADE_OUT_MS)
           \o LongWord \o <<Space>> \o LongWord \o LineBreak
           \o <<"\\", "\\", "N", "\\", "{">>

\* The caption of a dialogue line: what follows its override block.
CaptionOf(line) ==
    LET close == CHOOSE k \in 1..Len(line.text) :
                     /\ line.text[k] = "}"
                     /\ \A i \in 1..(k - 1) : line.text[i] # "}"
    IN SubSeq(line.text, close + 1, Len(line.text))

\* A glow line on layer 0 and a main line on layer 1 of the same event.
EventPair(glow, main) ==
    /\ glow.layer = 0
    /\ glow.style = <<"Narration", "Glow">>
    /\ main.layer = 1
    /\ main.style = <<"Narration">>
    /\ glow.start = main.start
    /\ glow.end = main.end
    /\ CaptionOf(glow) = CaptionOf(main)

\* C25: every caption event yields exactly two dialogue lines, a glow line on
\* layer 0 with style <style>Glow and a main line on layer 1, with the same
\* start, the same end and the same wrapped text; the caption document holds
\* exactly two dialogue lines per dialogue event, in event order.
C25_TwoLinesPerEvent ==
    /\ Called("create_subtitle_event") =>
         /\ Len(call.out) = 2
         /\ EventPair(call.out[1], call.out[2])
         /\ call.out[1].start = format_time_ass(call.arg.start)
         /\ call.out[1].end = format_time_ass(call.arg.end)
    /\ Called("create_subtitles_file") =>
         /\ Len(call.out) = 2 * Len(call.arg)
         /\ \A k \in 1..Len(call.arg) :
              /\ EventPair(call.out[2 * k - 1], call.out[2 * k])
              /\ call.out[2 * k].start = format_time_ass(call.arg[k].start)
              /\ call.out[2 * k].end = format_time_ass(call.arg[k].end)
              /\ CaptionOf(call.out[2 * k])
                   = wrap_text(EscapedCharwise(call.arg[k].text), DEFAULT_MAX_CHARS)

C25_Witness ==
    /\ Called("create_subtitles_file")
    /\ Len(call.arg) = 2
    /\ call.arg[1].text = LongWord
    /\ call.arg[2].text = <<"a", "}">>
    /\ Len(call.out) = 4
    /\ call.out[3].layer = 0
    /\ call.out[4].layer = 1
    /\ call.out[3].start = <<"0", ":", "0", "0", ":", "0", "4", ".", "0", "0">>
    /\ CaptionOf(call.out[4]) = <<"a", "\\", "}">>

(* ==================== properties of the stage functions ================ *)
StageFunctions ==
    {"create_clip_from_image", "concatenate_clips", "add_subtitles",
     "create_narration_track", "add_audio_tracks"}

\* What a stage function returns when its stage failed: None for the
\* narration track, False for the others.
FailureValue(fn) == IF fn = "create_narration_track" THEN "none" ELSE FALSE

\* C26: every external stage runs its tool with an explicit timeout, and a
\* timeout is a failure of that stage only, exactly like a non-zero exit:
\* the stage function returns its failure value and no exception leaves it.
C26_TimeoutIsStageFailure ==
    (call.done /\ call.fn \in StageFunctions) =>
        /\ ~call.out.raised
        /\ call.out.tool # "none" => call.out.timeout > 0
        /\ call.out.tool \in {"error", "timeout"} =>
             call.out.returned = FailureValue(call.fn)
        /\ call.out.tool = "ok" => call.out.returned # FailureValue(call.fn)

C26_Witness ==
    /\ Called("concatenate_clips")
    /\ call.out.tool = "timeout"
    /\ call.out.timeout = 300
    /\ call.out.returned = FALSE
    /\ ~call.out.raised
    /\ fs[concat_file] = ListFile

(* ================== properties of the build, stage order =============== *)
\* The place of a stage in the pipeline after the render loop.
StageRank(stage) ==
    IF stage = "concat" THEN 1
    ELSE IF stage = "subs" THEN 2
    ELSE IF stage = "narration" THEN 3
    ELSE 4

\* C27: the stages run in the order render (pages in page order),
\* concatenate, caption burn-in, narration-track build, audio mix, each at
\* most once; concatenation runs only after every page's render attempt, the
\* audio mix only after the caption and narration-track attempts, and no
\* stage runs after a fatal failure (zero clips, or a failed concatenation).
C27_StageOrder ==
    /\ \A i \in 1..Len(stages) : \A j \in 1..Len(stages) :
         i < j => StageRank(stages[i].stage) < StageRank(stages[j].stage)
    /\ clips = RenderedSeq(Len(success))
    /\ StageRun("concat") => Len(success) = Len(pages_data)
    /\ (StageRun("subs") \/ StageRun("narration") \/ StageRun("mix")) =>
         StageOutcome("concat", "ok")
    /\ StageRun("mix") =>
         /\ all_dialogues # <<>> => StageRun("subs")
         /\ has_narration_audio(pages_data) => StageRun("narration")
         /\ pc = "done"
    /\ result = "None" =>
         /\ pc = "done"
         /\ \/ stages = <<>> /\ clips = <<>>
            \/ Len(stages) = 1 /\ ConcatFailed

C27_Witness ==
    /\ pc = "done"
    /\ Len(pages_data) = 2
    /\ success = <<FALSE, TRUE>>
    /\ Len(stages) = 4
    /\ stages[1].stage = "concat"
    /\ stages[2] = [stage |-> "subs", outcome |-> "error"]
    /\ stages[3] = [stage |-> "narration", outcome |-> "error"]
    /\ stages[4].stage = "mix"

\* C28: whenever build_manga_video returns a path, a file exists at that
\* path at the moment of return, for every output_name, the names of the
\* intermediate files included: the cleanup never deletes the final artifact.
C28_ReturnedPathExists ==
    (pc = "done" /\ result = output_name) => fs[output_name].kind # "none"


RECURSIVE OutputLines(_, _, _)
\* The segments of a wrapped text between its line-break markers.
OutputLines(str, k, line) ==
    IF k > Len(str) THEN <<line>>
    ELSE IF k < Len(str) /\ str[k] = "\\" /\ str[k + 1] = "N"
    THEN <<line>> \o OutputLines(str, k + 2, <<>>)
    ELSE OutputLines(str, k + 1, Append(line, str[k]))

\* C29: for every text in which no single word is longer than max_chars,
\* every line of the output of wrap_text (the segments between the
\* line-break markers) has at most max_chars characters, also when the
\* greedy wrap produced more than two lines.
C29_LinesWithinMaxChars ==
    (/\ Called("wrap_text")
     /\ \A w \in Range(SplitWords(call.arg.text, 1, <<>>)) :
            Len(w) <= call.arg.max_chars) =>
        \A line \in Range(OutputLines(call.out, 1, <<>>)) :
            Len(line) <= call.arg.max_chars


\* C30: series selection is round-robin.  get_next_series returns an element
\* of the series list whenever the list is not empty, whatever add_series,
\* remove_series and advance_index did before; a run of run_daily that
\* completes (upload recorded, or no new chapter) selects the series at
\* next_index and stores next_index + 1 modulo the number of series, so that
\* with n series any n consecutive completed runs select every series once;
\* a run that ends in an error leaves the stored next_index unchanged.
C30_RoundRobin ==
    /\ (Called("get_next_series") /\ call.arg.series # <<>>) =>
           call.out \in Range(call.arg.series)
    /\ (Called("run_daily") /\ call.out.outcome \in Completed) =>
           LET n == Len(call.arg.series) IN
           /\ call.out.series = call.arg.series[(call.arg.next_index % n) + 1]
           /\ call.out2.series = call.arg.series
           /\ call.out2.next_index = (call.arg.next_index + 1) % n
    /\ LET n == Len(gist.series)
           m == Len(selections)
       IN (n > 0 /\ m >= n) =>
              {selections[k] : k \in (m - n + 1)..m} = Range(gist.series)
    /\ (Called("run_daily") /\ call.out.outcome \notin Completed) =>
           call.out2 = call.arg

\* Several series, the index at the last of them: the run that completes
\* wraps the index around, and as many runs as there are series completed.
C30_Witness ==
    /\ Called("run_daily")
    /\ call.out.outcome = "uploaded"
    /\ Len(call.arg.series) >= 2
    /\ call.arg.next_index = Len(call.arg.series) - 1
    /\ call.out2.next_index = 0
    /\ Len(selections) >= Len(gist.series)
    /\ gist = call.out2

====
